---------------------------- MODULE Spec2Model ----------------------------
(***************************************************************************)
(* Model of the task orchestrator: the WorkerPool registry                 *)
(* (src/src/worker-pool.ts, class WorkerPool), the Poller that feeds it    *)
(* (same file, class Poller), the two task handlers (task-handler.ts,      *)
(* src/src/review-handler.ts), the agent runner (src/src/claude.ts) and    *)
(* the shutdown of the process (index.ts).                                 *)
(*                                                                         *)
(* The JavaScript event loop is single threaded: a block of code between   *)
(* two awaits runs atomically, so every action below is one such block.    *)
(***************************************************************************)
EXTENDS Integers, Sequences, FiniteSets, TLC

(***************************************************************************)
(* Bounds of the model.                                                    *)
(***************************************************************************)
\* distinct idempotency keys the pool-level callers use
NumKeys == 3
\* accepted submissions (task objects / handler executions) over one run
MaxRuns == 3
\* config.worker.maxConcurrency, a configuration value
MaxConcurrency == 2
\* tasks the Poller gets accepted by the pool over one run
MaxDispatched == 2
\* work items of the tracker
NumIssues == 1
\* work items of the tracker where the new-work scan is followed alone
NumScanIssues == 3
\* open change requests on auto/ branches
NumPRs == 2
\* feedback entries written over one run
MaxComments == 2
\* the clock runs from 0 to MaxTime
MaxTime == 1
\* poll() invocations in flight at once (setInterval does not wait for the
\* previous cycle)
MaxCycles == 2

(***************************************************************************)
(* Idempotency keys.  `issue-${n}` is <<"issue", n>>,                      *)
(* `review-${pr}-${Date.now()}` is <<"review", pr, t>>.                    *)
(***************************************************************************)
IssueKey(n) == <<"issue", n>>

ReviewKey(pr, t) == <<"review", pr, t>>

PoolKeys == {IssueKey(n) : n \in 1..NumKeys}

NoKey == <<>>

TaskStatus == {"pending", "in-progress", "completed", "failed"}

(***************************************************************************)
(* State.                                                                  *)
(*   taskObjs  every WorkerTask object created so far, in creation order;  *)
(*             the index is the object's identity.  One accepted submit    *)
(*             creates one object, one AbortController and one handler     *)
(*             execution, so the record carries all three:                 *)
(*               id, type, status   the WorkerTask fields                  *)
(*               aborted            abortController.signal.aborted         *)
(*               run                the handler promise: "running",        *)
(*                                  "resolved" or "rejected"               *)
(*               carry              the feedback entries the handler       *)
(*                                  closure holds (Review tasks)           *)
(*   tasks     the Map<string, WorkerTask>: the set of its entries         *)
(*             [k, ref], ref an index into taskObjs.  The pool never       *)
(*             depends on the iteration order of the Map (it filters and   *)
(*             counts), so the order is not kept.                          *)
(*   wpc       the waitForAll call in flight: "idle" or "waiting"          *)
(*   lastOp    history: the operation of the last step ("-" for the steps  *)
(*             no property asks about) and, for a submit call, what the    *)
(*             call found in the registry (see Found)                      *)
(*   now           the wall clock (Date.now(), new Date())                 *)
(*   lastPollTime  Poller.lastPollTime                                     *)
(*   labeled       the open issues carrying the trigger label              *)
(*   comments      the human feedback entries on the open auto/ change     *)
(*                 requests, in creation order: [pr, at]; the index is     *)
(*                 the entry's id                                          *)
(*   cyc           the poll() invocations in flight, one record per slot:  *)
(*                   pc      "idle", "issues" (awaiting fetchLabeledIssues)*)
(*                           "issueLoop", "comments" (awaiting             *)
(*                           fetchReviewComments), "reviewLoop"            *)
(*                   start   history: lastPollTime when the cycle began    *)
(*                   list    the issues of the for loop not yet visited    *)
(*                   since   the argument given to fetchReviewComments     *)
(*                   got     the ids of the entries the fetch returned     *)
(*                   groups  the keys of byPR not yet visited              *)
(*                   sent    history: the ids carried by the Review tasks  *)
(*                           the pool accepted in this cycle               *)
(*                   wait    the task registered by the submit call the    *)
(*                           loop is awaiting, 0 for none                  *)
(*   hs            the handler executions followed step by step, one       *)
(*                 record per task object (see StartHandler); empty where  *)
(*                 a handler is followed only up to its settlement         *)
(*   sessionStore  the module-level Map<number, string> of                 *)
(*                 review-handler.ts: change request -> session id, 0 for  *)
(*                 no entry                                                *)
(*   worktrees     the worktree paths that exist under .worktrees          *)
(*   proc          the process: "running", "stopping" (shutdown has        *)
(*                 cleared the timer and awaits waitForAll) or "exited"    *)
(*   stdout        the output collected from the agent: a sequence of      *)
(*                 lines (see LineKinds)                                   *)
(*   sessionId     what extractSessionId returned for stdout: -1 before    *)
(*                 the call, then 0 (undefined) or a session id            *)
(***************************************************************************)
VARIABLES tasks, taskObjs, wpc, lastOp,
          now, lastPollTime, labeled, comments, cyc,
          hs, sessionStore, worktrees, proc, stdout, sessionId

poolVars == <<tasks, taskObjs>>

pollerVars == <<now, lastPollTime, labeled, comments, cyc>>

handlerVars == <<hs, sessionStore, worktrees>>

otherVars == <<proc, stdout, sessionId>>

vars == <<tasks, taskObjs, wpc, lastOp,
          now, lastPollTime, labeled, comments, cyc,
          hs, sessionStore, worktrees, proc, stdout, sessionId>>

Issues == 1..NumIssues

PRs == 1..NumPRs

Cycles == 1..MaxCycles

(***************************************************************************)
(* Map<string, WorkerTask>                                                 *)
(***************************************************************************)
\* Map.get: the value stored under k, 0 for undefined (the oldest entry, were
\* there several)
MapGet(m, k) ==
    LET found == {e.ref : e \in {x \in m : x.k = k}}
    IN  IF found = {} THEN 0
        ELSE CHOOSE r \in found : \A q \in found : r <= q

\* a registry that adds every entry and never replaces one
MapSetAppendOnly(m, k, ref) == m \cup {[k |-> k, ref |-> ref]}

\* Map.set: replaces the value of an existing key
MapSet(m, k, ref) == {e \in m : e.k # k} \cup {[k |-> k, ref |-> ref]}

\* Map.values()
Entries == tasks

StatusAt(e) == taskObjs[e.ref].status

(***************************************************************************)
(* WorkerPool                                                              *)
(***************************************************************************)
activeCount == Cardinality({e \in Entries : StatusAt(e) = "in-progress"})

\* accepts one task too many
canAcceptOffByOne == activeCount <= MaxConcurrency

canAccept == activeCount < MaxConcurrency

\* looks only for queued tasks
hasPendingOnly(taskId) ==
    LET ref == MapGet(tasks, taskId)
    IN  ref # 0 /\ taskObjs[ref].status = "pending"

has(taskId) ==
    LET ref == MapGet(tasks, taskId)
    IN  ref # 0 /\ taskObjs[ref].status \in {"in-progress", "pending"}

NewTask(taskId, type, carry) ==
    [id |-> taskId, type |-> type, status |-> "in-progress",
     aborted |-> FALSE, run |-> "running", carry |-> carry]

\* registers without looking at the capacity
submitNoCapacityCheck(taskId, type, carry) ==
    IF has(taskId)
    THEN UNCHANGED poolVars
    ELSE /\ taskObjs' = Append(taskObjs, NewTask(taskId, type, carry))
         /\ tasks' = MapSet(tasks, taskId, Len(taskObjs) + 1)

\* submit: the whole call; the handler is started and not awaited
submit(taskId, type, carry) ==
    IF ~canAccept
    THEN UNCHANGED poolVars
    ELSE IF has(taskId)
    THEN UNCHANGED poolVars
    ELSE /\ taskObjs' = Append(taskObjs, NewTask(taskId, type, carry))
         /\ tasks' = MapSet(tasks, taskId, Len(taskObjs) + 1)

\* updateStatus: the task is looked up by key
updateStatus(objs, taskId, status) ==
    LET ref == MapGet(tasks, taskId)
    IN  IF ref # 0 THEN [objs EXCEPT ![ref].status = status] ELSE objs

\* the handler promise of object r settles and its then/catch callback runs
settle(r, outcome) ==
    taskObjs' = updateStatus([taskObjs EXCEPT ![r].run = outcome],
                             taskObjs[r].id,
                             IF outcome = "resolved" THEN "completed" ELSE "failed")

Registered == {e.ref : e \in Entries}

\* marks every registered task failed, whatever its status
cancelAllEveryTask(objs) ==
    [r \in DOMAIN objs |->
        IF r \in Registered
        THEN [objs[r] EXCEPT !.aborted = TRUE, !.status = "failed"]
        ELSE objs[r]]

\* cancelAll: the loop over tasks.values()
cancelAll(objs) ==
    [r \in DOMAIN objs |->
        IF r \in Registered /\ objs[r].status = "in-progress"
        THEN [objs[r] EXCEPT !.aborted = TRUE, !.status = "failed"]
        ELSE objs[r]]

(***************************************************************************)
(* Handler executions (TaskHandler.handle, ReviewHandler.handle) and the   *)
(* agent subprocess (runClaude).                                           *)
(*                                                                         *)
(* A handler is a chain of awaited calls.  hs[r] follows the handler of    *)
(* task object r:                                                          *)
(*   pc      the call the handler is awaiting, "done" after it returned    *)
(*   log     the calls the handler has made so far, in order: [call, arg]  *)
(*   threw   the handler has left its try block through a throw            *)
(*   holds   the handler's createWorktree succeeded and its removeWorktree *)
(*           has not run yet                                               *)
(*   killed  child.kill("SIGTERM") was called on the handler's subprocess  *)
(*   resume  the resumeSessionId given to runClaude, 0 for undefined       *)
(*   exit    the exitCode runClaude resolved with, -1 before that          *)
(*   created        history: the handler's createWorktree succeeded        *)
(*   discardFailed  history: the handler's removeWorktree threw            *)
(*   failedAt       history: the length of log when the handler left its   *)
(*                  try block through a throw, 0 before that               *)
(*   swallowed      history: a call of the catch block threw               *)
(***************************************************************************)
\* session ids the agent reports
NumTokens == 1

\* handler executions followed step by step over one run
MaxHandlers == 2

Tokens == 1..NumTokens

ExitCodes == {0, 1}

Call(name, arg) == [call |-> name, arg |-> arg]

\* a handler that publishes before it has run the agent
IssueTryPushBeforeAgent ==
    << "removeTrigger", "addInProgress", "commentStart", "createWorktree",
       "buildPrompt", "gitPush", "agent", "createPullRequest", "commentLink",
       "removeInProgress" >>

\* a handler that leaves the failure label out of its error report
IssueCatchNoFailedLabel == << "catchRemoveInProgress", "catchComment" >>

\* the awaited calls of TaskHandler.handle: its try block, in order
IssueTry ==
    << "removeTrigger", "addInProgress", "commentStart", "createWorktree",
       "buildPrompt", "agent", "gitPush", "createPullRequest", "commentLink",
       "removeInProgress" >>

\* its catch block, in order; every call has its own .catch(() => {})
IssueCatch == << "catchRemoveInProgress", "catchAddFailed", "catchComment" >>

\* the awaited calls of ReviewHandler.handle: getPRBranch is called before
\* the try block, the rest is the try block
ReviewTry ==
    << "getPRBranch", "createWorktree", "commentStart", "agent", "gitPush",
       "commentDone" >>

ReviewCatch == << "catchComment" >>

TryOf(type) == IF type = "issue" THEN IssueTry ELSE ReviewTry

CatchOf(type) == IF type = "issue" THEN IssueCatch ELSE ReviewCatch

\* what the handler calls when it awaits at pc
CallAt(type, pc) ==
    CASE pc = "removeTrigger"         -> Call("removeLabel", "trigger")
      [] pc = "addInProgress"         -> Call("addLabel", "inProgress")
      [] pc = "commentStart"          -> Call("postComment", "start")
      [] pc = "createWorktree"        -> Call("createWorktree", "-")
      [] pc = "buildPrompt"           -> Call("readFile", "todo")
      [] pc = "agent"                 -> Call("runClaude", "-")
      [] pc = "gitPush"               -> Call("gitPush", "-")
      [] pc = "createPullRequest"     -> Call("createPullRequest", "-")
      [] pc = "commentLink"           -> Call("postComment", "link")
      [] pc = "removeInProgress"      -> Call("removeLabel", "inProgress")
      [] pc = "catchRemoveInProgress" -> Call("removeLabel", "inProgress")
      [] pc = "catchAddFailed"        -> Call("addLabel", "failed")
      [] pc = "catchComment"          -> Call("postComment", "error")
      [] pc = "removeWorktree"        -> Call("removeWorktree", "-")
      [] pc = "getPRBranch"           -> Call("getPRBranch", "-")
      [] pc = "commentDone"           -> Call("postComment", "done")

\* the position of pc in a chain, 0 when it is not in it
IndexIn(chain, pc) ==
    IF \E i \in DOMAIN chain : chain[i] = pc
    THEN CHOOSE i \in DOMAIN chain : chain[i] = pc
    ELSE 0

\* the call that follows pc when the call at pc returned: the next of its
\* chain, then the finally block
After(type, pc) ==
    LET try == TryOf(type)
        catch == CatchOf(type)
        i == IndexIn(try, pc)
        j == IndexIn(catch, pc)
    IN  IF i # 0
        THEN IF i < Len(try) THEN try[i + 1] ELSE "removeWorktree"
        ELSE IF j # 0
        THEN IF j < Len(catch) THEN catch[j + 1] ELSE "removeWorktree"
        ELSE "done"

\* a handler whose catch block gives up at the first of its calls that fails
AfterThrowAbandons(type, pc) ==
    IF pc = "getPRBranch" THEN "done"
    ELSE IF IndexIn(TryOf(type), pc) # 0 THEN CatchOf(type)[1]
    ELSE "removeWorktree"

\* the call that follows pc when the call at pc threw: inside the try block
\* the first of the catch block, inside the catch block the next call (the
\* error is swallowed); getPRBranch is outside the try block, its error
\* leaves handle()
AfterThrow(type, pc) ==
    IF pc = "getPRBranch" THEN "done"
    ELSE IF IndexIn(TryOf(type), pc) # 0 THEN CatchOf(type)[1]
    ELSE After(type, pc)

\* the worktree directory of a task: .worktrees/issue-<n> for an Implement
\* task, .worktrees/review-pr-<pr> for a Review task
WorktreePath(task) ==
    IF task.type = "issue" THEN <<"issue", task.id[2]>>
    ELSE <<"review-pr", task.id[2]>>

\* handle() up to its first await
StartHandler(type) ==
    [pc |-> TryOf(type)[1], log |-> <<CallAt(type, TryOf(type)[1])>>,
     threw |-> FALSE, holds |-> FALSE, killed |-> FALSE, resume |-> 0,
     exit |-> -1, created |-> FALSE, discardFailed |-> FALSE,
     failedAt |-> 0, swallowed |-> FALSE]

\* the handler moves on to await `next`, which it calls at once.  runClaude
\* rejects at once when the signal is already aborted (it has spawned the
\* child and kills it), and the handler moves on to its catch block.
Goto(h, task, next, store) ==
    IF next = "done" THEN [h EXCEPT !.pc = "done"]
    ELSE IF next = "agent"
    THEN IF task.aborted
         THEN [h EXCEPT !.pc = CatchOf(task.type)[1],
                        !.log = h.log \o <<CallAt(task.type, "agent"),
                                           CallAt(task.type, CatchOf(task.type)[1])>>,
                        !.threw = TRUE,
                        !.failedAt = Len(h.log) + 1,
                        !.killed = TRUE,
                        !.resume = IF task.type = "review" THEN store[task.id[2]] ELSE 0]
         ELSE [h EXCEPT !.pc = "agent",
                        !.log = Append(h.log, CallAt(task.type, "agent")),
                        !.resume = IF task.type = "review" THEN store[task.id[2]] ELSE 0]
    ELSE [h EXCEPT !.pc = next, !.log = Append(h.log, CallAt(task.type, next))]

\* the call at pc returned
Returned(h, task, store) == Goto(h, task, After(task.type, h.pc), store)

\* the call at pc threw
Threw(h, task, store) ==
    IF IndexIn(TryOf(task.type), h.pc) # 0
    THEN Goto([h EXCEPT !.threw = TRUE, !.failedAt = Len(h.log)],
              task, AfterThrow(task.type, h.pc), store)
    ELSE Goto([h EXCEPT !.swallowed = TRUE], task, AfterThrow(task.type, h.pc), store)

\* the abort listener of runClaude (onAbort): every handler whose signal has
\* just been aborted and whose subprocess is running kills it
onAbort(h) ==
    [r \in DOMAIN h |->
        IF /\ r \in Registered
           /\ taskObjs[r].status = "in-progress"
           /\ h[r].pc = "agent"
        THEN [h[r] EXCEPT !.killed = TRUE]
        ELSE h[r]]

(***************************************************************************)
(* Pool-level operations, called in any order.                             *)
(***************************************************************************)
\* what a submit call under `key` finds in the registry, read from the
\* registry itself: no capacity ("full"), the key active ("dup"), both
\* ("fulldup") or neither ("free")
Found(key) ==
    LET full == Cardinality({e \in tasks :
                    taskObjs[e.ref].status = "in-progress"}) >= MaxConcurrency
        dup  == \E e \in tasks :
                    e.k = key /\ taskObjs[e.ref].status \in {"in-progress", "pending"}
    IN  IF full /\ dup THEN "fulldup"
        ELSE IF full THEN "full"
        ELSE IF dup THEN "dup"
        ELSE "free"

Op(name, key) ==
    [op |-> name, pre |-> IF name = "submit" THEN Found(key) ELSE "-"]

RunsLeft == Len(taskObjs) < MaxRuns

\* keys are interchangeable: key n is first used after key n - 1
InOrder(k) ==
    \A n \in 1..(k[2] - 1) : \E r \in DOMAIN taskObjs : taskObjs[r].id = IssueKey(n)

Submit(k) ==
    /\ InOrder(k)
    /\ RunsLeft \/ ~canAccept \/ has(k)
    /\ submit(k, "issue", {})
    /\ lastOp' = Op("submit", k)
    /\ UNCHANGED <<wpc, pollerVars>>
    /\ UNCHANGED <<handlerVars, otherVars>>

HandlerResolve(r) ==
    /\ taskObjs[r].run = "running"
    /\ settle(r, "resolved")
    /\ lastOp' = Op("-", NoKey)
    /\ UNCHANGED <<tasks, wpc, pollerVars>>
    /\ UNCHANGED <<handlerVars, otherVars>>

HandlerReject(r) ==
    /\ taskObjs[r].run = "running"
    /\ settle(r, "rejected")
    /\ lastOp' = Op("-", NoKey)
    /\ UNCHANGED <<tasks, wpc, pollerVars>>
    /\ UNCHANGED <<handlerVars, otherVars>>

CancelAll ==
    /\ taskObjs' = cancelAll(taskObjs)
    /\ lastOp' = Op("cancelAll", NoKey)
    /\ UNCHANGED <<tasks, wpc, pollerVars>>
    /\ hs' = onAbort(hs)
    /\ UNCHANGED <<sessionStore, worktrees, otherVars>>

\* waitForAll up to its first wait: returns at once when nothing is active
WaitForAllCall ==
    /\ wpc = "idle"
    /\ wpc' = IF activeCount = 0 THEN "idle" ELSE "waiting"
    /\ lastOp' = Op("-", NoKey)
    /\ UNCHANGED <<tasks, taskObjs, pollerVars>>
    /\ UNCHANGED <<handlerVars, otherVars>>

\* an iteration before the deadline that finds nothing active returns
WaitForAllDrained ==
    /\ wpc = "waiting"
    /\ activeCount = 0
    /\ wpc' = "idle"
    /\ lastOp' = Op("-", NoKey)
    /\ UNCHANGED <<tasks, taskObjs, pollerVars>>
    /\ UNCHANGED <<handlerVars, otherVars>>

\* the deadline has passed: cancelAll, then return
WaitForAllTimeout ==
    /\ wpc = "waiting"
    /\ taskObjs' = cancelAll(taskObjs)
    /\ wpc' = "idle"
    /\ lastOp' = Op("waitTimeout", NoKey)
    /\ UNCHANGED <<tasks, pollerVars>>
    /\ hs' = onAbort(hs)
    /\ UNCHANGED <<sessionStore, worktrees, otherVars>>


(***************************************************************************)
(* Tracker (GitHubClient) as the Poller sees it.                           *)
(***************************************************************************)
RECURSIVE Ascending(_)
\* the elements of a finite set of numbers, smallest first
Ascending(S) ==
    IF S = {} THEN <<>>
    ELSE LET m == CHOOSE x \in S : \A y \in S : x <= y
         IN  <<m>> \o Ascending(S \ {m})

\* fetchLabeledIssues: the open issues with the label, in the tracker's order
fetchLabeledIssues == Ascending(labeled)

\* fetchReviewComments(since): the entries created at or after `since`
fetchReviewComments(since) == {id \in DOMAIN comments : comments[id].at >= since}

\* byPR: the change requests of the fetched entries, in order of appearance
byPRKeys(got) == Ascending({comments[id].pr : id \in got})

\* byPR.get(pr)
prComments(got, pr) == {id \in got : comments[id].pr = pr}

(***************************************************************************)
(* Poller.poll                                                             *)
(***************************************************************************)
IdleCycle ==
    [pc |-> "idle", start |-> 0, list |-> <<>>, since |-> 0,
     got |-> {}, groups |-> <<>>, sent |-> {}, wait |-> 0]

\* a submit that resolves only when the handler it started has settled
submitReturnedWithHandler(ref) ==
    IF ref = 0 THEN TRUE ELSE taskObjs[ref].run # "running"

\* the promise of submit, which the loops of the Poller await: submit is an
\* async function without an await, it attaches then/catch to the promise of
\* the handler and returns, so its own promise is resolved whatever the
\* handler of task `ref` does
submitReturned(ref) == TRUE

\* the task a submit call has just registered, 0 when it registered none
Submitted == IF Len(taskObjs') > Len(taskObjs) THEN Len(taskObjs') ELSE 0

\* a poll() that stores the time of the cycle whether or not a scan threw
lastPollTimeAfterAlways(threw) == now

\* lastPollTime when poll() returns: the assignment is the last statement of
\* the try block, the catch block only logs
lastPollTimeAfter(threw) == IF threw THEN lastPollTime ELSE now

DispatchLeft == Len(taskObjs) < MaxDispatched

RECURSIVE SkipActive(_)
\* the `continue` branch of pollIssues: issues whose task the pool has
SkipActive(list) ==
    IF list = <<>> THEN <<>>
    ELSE IF has(IssueKey(Head(list))) THEN SkipActive(Tail(list))
    ELSE list

\* setInterval (or start) calls poll(): up to the await of fetchLabeledIssues.
\* Slots are taken lowest first.  stop() has not cleared the timer.
PollStart(c) ==
    /\ proc = "running"
    /\ cyc[c].pc = "idle"
    /\ \A d \in 1..(c - 1) : cyc[d].pc # "idle"
    /\ cyc' = [cyc EXCEPT ![c] = [IdleCycle EXCEPT !.pc = "issues",
                                                   !.start = lastPollTime]]
    /\ lastOp' = Op("-", NoKey)
    /\ UNCHANGED <<poolVars, wpc, now, lastPollTime, labeled, comments>>
    /\ UNCHANGED <<handlerVars, otherVars>>

\* the end of pollIssues and the call of pollReviewComments, which reads
\* lastPollTime for the request it awaits
EnterComments(c) ==
    [cyc[c] EXCEPT !.pc = "comments", !.list = <<>>, !.since = lastPollTime,
                   !.wait = 0]

\* fetchLabeledIssues returns
FetchIssues(c) ==
    /\ cyc[c].pc = "issues"
    /\ cyc' = [cyc EXCEPT ![c] =
                 IF fetchLabeledIssues = <<>>
                 THEN EnterComments(c)
                 ELSE [cyc[c] EXCEPT !.pc = "issueLoop",
                                     !.list = fetchLabeledIssues]]
    /\ lastOp' = Op("-", NoKey)
    /\ UNCHANGED <<poolVars, wpc, now, lastPollTime, labeled, comments>>
    /\ UNCHANGED <<handlerVars, otherVars>>

\* a tracker call of the cycle throws: poll() catches, logs and returns
PollThrow(c) ==
    /\ cyc[c].pc \in {"issues", "comments"}
    /\ lastPollTime' = lastPollTimeAfter(TRUE)
    /\ cyc' = [cyc EXCEPT ![c] = IdleCycle]
    /\ lastOp' = Op("pollThrow", NoKey)
    /\ UNCHANGED <<poolVars, wpc, now, labeled, comments>>
    /\ UNCHANGED <<handlerVars, otherVars>>

\* a scan that goes on to the next issue when the pool cannot accept
issueScanStopsAtEndOnly(rest) == rest = <<>>

\* the for loop of pollIssues ends: the list is exhausted, or the pool cannot
\* accept the next issue it does not have (break)
issueScanStops(rest) == rest = <<>> \/ ~canAccept

\* pollIssues, one pass of the for loop up to the await of submit, or up to
\* its end (list exhausted, or break because the pool cannot accept)
IssueStep(c) ==
    /\ cyc[c].pc = "issueLoop"
    /\ submitReturned(cyc[c].wait)
    /\ LET rest == SkipActive(cyc[c].list)
       IN  IF issueScanStops(rest)
           THEN /\ cyc' = [cyc EXCEPT ![c] = EnterComments(c)]
                /\ UNCHANGED poolVars
                /\ lastOp' = Op(IF rest # <<>> THEN "scanBreak" ELSE "-", NoKey)
           ELSE /\ DispatchLeft \/ ~canAccept
                /\ submit(IssueKey(Head(rest)), "issue", {})
                /\ cyc' = [cyc EXCEPT ![c].list = Tail(rest),
                                      ![c].wait = Submitted]
                /\ lastOp' = Op("-", NoKey)
    /\ UNCHANGED <<wpc, now, lastPollTime, labeled, comments>>
    /\ UNCHANGED <<handlerVars, otherVars>>

\* fetchReviewComments returns and the entries are grouped
FetchComments(c) ==
    /\ cyc[c].pc = "comments"
    /\ LET got == fetchReviewComments(cyc[c].since)
       IN  cyc' = [cyc EXCEPT ![c] =
                     [cyc[c] EXCEPT !.pc = "reviewLoop", !.got = got,
                                    !.groups = byPRKeys(got)]]
    /\ lastOp' = Op("-", NoKey)
    /\ UNCHANGED <<poolVars, wpc, now, lastPollTime, labeled, comments>>
    /\ UNCHANGED <<handlerVars, otherVars>>

\* pollReviewComments, one pass of the for loop up to the await of submit
ReviewStep(c) ==
    /\ cyc[c].pc = "reviewLoop"
    /\ submitReturned(cyc[c].wait)
    /\ cyc[c].groups # <<>>
    /\ canAccept
    /\ LET pr  == Head(cyc[c].groups)
           ids == prComments(cyc[c].got, pr)
       IN  /\ DispatchLeft \/ has(ReviewKey(pr, now))
           /\ submit(ReviewKey(pr, now), "review", ids)
           /\ cyc' = [cyc EXCEPT ![c].groups = Tail(cyc[c].groups),
                                 ![c].wait = Submitted,
                                 ![c].sent =
                                    IF Len(taskObjs') > Len(taskObjs)
                                    THEN cyc[c].sent \cup ids
                                    ELSE cyc[c].sent]
    /\ lastOp' = Op("-", NoKey)
    /\ UNCHANGED <<wpc, now, lastPollTime, labeled, comments>>
    /\ UNCHANGED <<handlerVars, otherVars>>

\* pollReviewComments returns (no entry, every group visited, or break
\* because the pool cannot accept) and poll() stores the time
PollEnd(c) ==
    /\ cyc[c].pc = "reviewLoop"
    /\ submitReturned(cyc[c].wait)
    /\ cyc[c].groups = <<>> \/ ~canAccept
    /\ lastPollTime' = lastPollTimeAfter(FALSE)
    /\ cyc' = [cyc EXCEPT ![c] = IdleCycle]
    /\ lastOp' = Op("pollEnd", NoKey)
    /\ UNCHANGED <<poolVars, wpc, now, labeled, comments>>
    /\ UNCHANGED <<handlerVars, otherVars>>

(***************************************************************************)
(* What happens around the Poller.                                         *)
(***************************************************************************)
Tick ==
    /\ now < MaxTime
    /\ now' = now + 1
    /\ lastOp' = Op("-", NoKey)
    /\ UNCHANGED <<poolVars, wpc, lastPollTime, labeled, comments, cyc>>
    /\ UNCHANGED <<handlerVars, otherVars>>

\* a human writes feedback on change request pr
AddComment(pr) ==
    /\ Len(comments) < MaxComments
    /\ comments' = Append(comments, [pr |-> pr, at |-> now])
    /\ lastOp' = Op("-", NoKey)
    /\ UNCHANGED <<poolVars, wpc, now, lastPollTime, labeled, cyc>>
    /\ UNCHANGED <<handlerVars, otherVars>>

\* TaskHandler.handle, its first tracker call: the trigger label is removed
RemoveTrigger(r) ==
    /\ taskObjs[r].type = "issue"
    /\ taskObjs[r].run = "running"
    /\ taskObjs[r].id[2] \in labeled
    /\ labeled' = labeled \ {taskObjs[r].id[2]}
    /\ lastOp' = Op("-", NoKey)
    /\ UNCHANGED <<poolVars, wpc, now, lastPollTime, comments, cyc>>
    /\ UNCHANGED <<handlerVars, otherVars>>

\* how the promise of a handler can settle: TaskHandler.handle catches every
\* error, ReviewHandler.handle calls getPRBranch outside its try block
HandlerOutcomes(type) ==
    IF type = "issue" THEN {"resolved"} ELSE {"resolved", "rejected"}

HandlerSettle(r) ==
    /\ taskObjs[r].run = "running"
    /\ \E outcome \in HandlerOutcomes(taskObjs[r].type) :
          /\ settle(r, outcome)
          /\ lastOp' = Op("-", NoKey)
    /\ UNCHANGED <<tasks, wpc, pollerVars>>
    /\ UNCHANGED <<handlerVars, otherVars>>

(***************************************************************************)
(* The handlers, step by step.  Each action is the completion of the call  *)
(* a handler awaits, together with the code of the handler up to its next  *)
(* await.                                                                  *)
(***************************************************************************)
HandlersLeft == Len(taskObjs) < MaxHandlers

\* the calls that touch nothing the model follows but the handler itself
PlainCalls ==
    { "removeTrigger", "addInProgress", "commentStart", "buildPrompt", "gitPush",
      "createPullRequest", "commentLink", "removeInProgress",
      "catchRemoveInProgress", "catchAddFailed", "catchComment",
      "getPRBranch", "commentDone" }

\* pollIssues, the loop body for an issue the pool takes: the task is
\* registered and handle() runs up to its first await
DispatchIssue(n) ==
    /\ HandlersLeft
    /\ n \in labeled
    /\ ~has(IssueKey(n))
    /\ canAccept
    /\ submit(IssueKey(n), "issue", {})
    /\ hs' = Append(hs, StartHandler("issue"))
    /\ lastOp' = Op("-", NoKey)
    /\ UNCHANGED <<wpc, pollerVars, sessionStore, worktrees, otherVars>>

\* pollReviewComments, the loop body for a change request with new feedback
DispatchReview(pr) ==
    /\ HandlersLeft
    /\ ~has(ReviewKey(pr, now))
    /\ canAccept
    /\ submit(ReviewKey(pr, now), "review", {})
    /\ hs' = Append(hs, StartHandler("review"))
    /\ lastOp' = Op("-", NoKey)
    /\ UNCHANGED <<wpc, pollerVars, sessionStore, worktrees, otherVars>>

\* a tracker call, the push or the read of todo.md returns
CallReturns(r) ==
    /\ hs[r].pc \in PlainCalls
    /\ hs' = [hs EXCEPT ![r] = Returned(hs[r], taskObjs[r], sessionStore)]
    /\ labeled' = IF hs[r].pc = "removeTrigger"
                  THEN labeled \ {taskObjs[r].id[2]}
                  ELSE labeled
    /\ lastOp' = Op("-", NoKey)
    /\ UNCHANGED <<poolVars, wpc, now, lastPollTime, comments, cyc,
                   sessionStore, worktrees, otherVars>>

\* a tracker call or the push throws (buildPrompt catches the error of its
\* read).  The error of getPRBranch rejects the promise of the handler.
CallThrows(r) ==
    /\ hs[r].pc \in PlainCalls \ {"buildPrompt"}
    /\ hs' = [hs EXCEPT ![r] = Threw(hs[r], taskObjs[r], sessionStore)]
    /\ IF hs[r].pc = "getPRBranch"
       THEN settle(r, "rejected")
       ELSE UNCHANGED taskObjs
    /\ lastOp' = Op("-", NoKey)
    /\ UNCHANGED <<tasks, wpc, pollerVars, sessionStore, worktrees, otherVars>>

\* git worktree add succeeds: the path did not exist
CreateWorktreeReturns(r) ==
    /\ hs[r].pc = "createWorktree"
    /\ WorktreePath(taskObjs[r]) \notin worktrees
    /\ worktrees' = worktrees \cup {WorktreePath(taskObjs[r])}
    /\ hs' = [hs EXCEPT ![r] = Returned([hs[r] EXCEPT !.holds = TRUE,
                                                      !.created = TRUE],
                                        taskObjs[r], sessionStore)]
    /\ lastOp' = Op("-", NoKey)
    /\ UNCHANGED <<poolVars, wpc, pollerVars, sessionStore, otherVars>>

\* git fetch or git worktree add fails (as it does when the path exists)
CreateWorktreeThrows(r) ==
    /\ hs[r].pc = "createWorktree"
    /\ hs' = [hs EXCEPT ![r] = Threw(hs[r], taskObjs[r], sessionStore)]
    /\ lastOp' = Op("-", NoKey)
    /\ UNCHANGED <<poolVars, wpc, pollerVars, sessionStore, worktrees, otherVars>>

\* the session id ReviewHandler stores after runClaude resolved
sessionStoreAfter(store, pr, code, sid) ==
    IF sid # 0 THEN [store EXCEPT ![pr] = sid] ELSE store

\* the child closes: runClaude resolves with its exit code and the session
\* id extracted from its output; the handler throws on a non-zero code
AgentCloses(r, code, sid) ==
    /\ hs[r].pc = "agent"
    /\ sessionStore' =
          IF taskObjs[r].type = "review"
          THEN sessionStoreAfter(sessionStore, taskObjs[r].id[2], code, sid)
          ELSE sessionStore
    /\ hs' = [hs EXCEPT ![r] =
                 IF code = 0
                 THEN Returned([hs[r] EXCEPT !.exit = code], taskObjs[r], sessionStore)
                 ELSE Threw([hs[r] EXCEPT !.exit = code], taskObjs[r], sessionStore)]
    /\ lastOp' = Op("-", NoKey)
    /\ UNCHANGED <<poolVars, wpc, pollerVars, worktrees, otherVars>>

\* the child cannot be started: runClaude rejects
AgentError(r) ==
    /\ hs[r].pc = "agent"
    /\ ~hs[r].killed
    /\ hs' = [hs EXCEPT ![r] = Threw(hs[r], taskObjs[r], sessionStore)]
    /\ lastOp' = Op("-", NoKey)
    /\ UNCHANGED <<poolVars, wpc, pollerVars, sessionStore, worktrees, otherVars>>

\* a handler whose failing removeWorktree makes handle() reject
handleOutcomeAfterDiscardPropagates(ok) == IF ok THEN "resolved" ELSE "rejected"

\* how handle() settles after its finally block: the error of removeWorktree
\* is caught and logged there, handle() returns normally either way
handleOutcomeAfterDiscard(ok) == "resolved"

\* the finally block: git worktree remove --force has removed the path,
\* handle() returns and the then-callback of submit runs
RemoveWorktreeReturns(r) ==
    /\ hs[r].pc = "removeWorktree"
    /\ WorktreePath(taskObjs[r]) \in worktrees
    /\ worktrees' = worktrees \ {WorktreePath(taskObjs[r])}
    /\ hs' = [hs EXCEPT ![r] = Returned([hs[r] EXCEPT !.holds = FALSE],
                                        taskObjs[r], sessionStore)]
    /\ settle(r, handleOutcomeAfterDiscard(TRUE))
    /\ lastOp' = Op("-", NoKey)
    /\ UNCHANGED <<tasks, wpc, pollerVars, sessionStore, otherVars>>

\* the finally block: git worktree remove fails (as it does when the path
\* does not exist); the error is logged, handle() returns and the callback
\* of submit runs
RemoveWorktreeThrows(r) ==
    /\ hs[r].pc = "removeWorktree"
    /\ hs' = [hs EXCEPT ![r] = Returned([hs[r] EXCEPT !.holds = FALSE,
                                                      !.discardFailed = TRUE],
                                        taskObjs[r], sessionStore)]
    /\ settle(r, handleOutcomeAfterDiscard(FALSE))
    /\ lastOp' = Op("-", NoKey)
    /\ UNCHANGED <<tasks, wpc, pollerVars, sessionStore, worktrees, otherVars>>

(***************************************************************************)
(* shutdown (index.ts): poller.stop(), then waitForAll, then process.exit. *)
(* The continuation of `await workerPool.waitForAll(...)` runs in the same *)
(* turn of the event loop as the return of waitForAll, so the exit is part *)
(* of the step in which waitForAll returns.                                *)
(***************************************************************************)
\* SIGTERM or SIGINT: the timer is cleared and waitForAll is called; it
\* returns at once when nothing is in progress
ShutdownSignal ==
    /\ proc = "running"
    /\ IF activeCount = 0
       THEN proc' = "exited" /\ wpc' = wpc
       ELSE proc' = "stopping" /\ wpc' = "waiting"
    /\ lastOp' = Op("-", NoKey)
    /\ UNCHANGED <<poolVars, pollerVars, handlerVars, stdout, sessionId>>

\* an iteration of waitForAll before the deadline finds nothing in progress
ShutdownDrained ==
    /\ proc = "stopping"
    /\ activeCount = 0
    /\ proc' = "exited"
    /\ wpc' = "idle"
    /\ lastOp' = Op("-", NoKey)
    /\ UNCHANGED <<poolVars, pollerVars, handlerVars, stdout, sessionId>>

\* the deadline of waitForAll has passed: cancelAll, return, exit
ShutdownTimeout ==
    /\ proc = "stopping"
    /\ taskObjs' = cancelAll(taskObjs)
    /\ hs' = onAbort(hs)
    /\ proc' = "exited"
    /\ wpc' = "idle"
    /\ lastOp' = Op("-", NoKey)
    /\ UNCHANGED <<tasks, pollerVars, sessionStore, worktrees, stdout, sessionId>>

(***************************************************************************)
(* extractSessionId (claude.ts).  The output of the agent is a sequence of *)
(* lines; a line is one of                                                 *)
(*   "empty"  the empty string                                             *)
(*   "blank"  white space only                                             *)
(*   "bad"    text JSON.parse rejects                                      *)
(*   "null"   the JSON value null: it parses, and reading a property of it *)
(*            throws                                                       *)
(*   "obj"    a JSON value without a string session_id                     *)
(*   "sid"    a JSON object whose session_id is the string `id`            *)
(***************************************************************************)
\* lines of output
MaxLines == 3

Line(kind, id) == [kind |-> kind, id |-> id]

LineKinds ==
    {Line(k, 0) : k \in {"empty", "blank", "bad", "null", "obj"}}
        \cup {Line("sid", t) : t \in Tokens}

Outputs == UNION {[1..n -> LineKinds] : n \in 0..MaxLines}

IsSpace(l) == l.kind \in {"empty", "blank"}

RECURSIVE TrimStart(_)
TrimStart(out) ==
    IF out = <<>> THEN out
    ELSE IF IsSpace(Head(out)) THEN TrimStart(Tail(out))
    ELSE out

RECURSIVE TrimEnd(_)
TrimEnd(out) ==
    IF out = <<>> THEN out
    ELSE IF IsSpace(out[Len(out)]) THEN TrimEnd(SubSeq(out, 1, Len(out) - 1))
    ELSE out

\* filter(Boolean): the empty string is the only falsy line
NotEmptyLine(l) == l.kind # "empty"

\* stdout.trim().split("\n").filter(Boolean)
SplitLines(out) == SelectSeq(TrimEnd(TrimStart(out)), NotEmptyLine)

\* JSON.parse(line), or the read of .session_id of its result, throws
LineThrows(l) == l.kind \in {"blank", "bad", "null"}

RECURSIVE ScanBack(_, _)
\* the for loop from index i down to the first line, each pass in its own
\* try block
ScanBack(lines, i) ==
    IF i = 0 THEN 0
    ELSE IF lines[i].kind = "sid" THEN lines[i].id
    ELSE ScanBack(lines, i - 1)

\* extractSessionId: the last line is parsed inside the outer try block
\* only, whose catch block makes the function return undefined (0)
extractSessionId(out) ==
    LET lines == SplitLines(out)
    IN  IF lines = <<>> THEN 0
        ELSE IF LineThrows(lines[Len(lines)]) THEN 0
        ELSE IF lines[Len(lines)].kind = "sid" THEN lines[Len(lines)].id
        ELSE ScanBack(lines, Len(lines) - 1)

\* runClaude's close handler calls extractSessionId on the collected output
Extract ==
    /\ sessionId = -1
    /\ sessionId' = extractSessionId(stdout)
    /\ UNCHANGED <<poolVars, wpc, lastOp, pollerVars, handlerVars, proc, stdout>>

(***************************************************************************)
(* Specifications.                                                         *)
(***************************************************************************)
Init ==
    /\ tasks = {}
    /\ taskObjs = <<>>
    /\ wpc = "idle"
    /\ lastOp = [op |-> "-", pre |-> "-"]
    /\ now = 0
    /\ lastPollTime = 0
    /\ labeled \in SUBSET Issues
    /\ comments = <<>>
    /\ cyc = [c \in Cycles |-> IdleCycle]
    /\ hs = <<>>
    /\ sessionStore = [pr \in PRs |-> 0]
    /\ worktrees = {}
    /\ proc = "running"
    /\ stdout = <<>>
    /\ sessionId = -1

\* the pool specifications leave the tracker empty
InitPool == Init /\ labeled = {}

\* the WorkerPool alone, its methods called in any order
NextPool ==
    \/ \E k \in PoolKeys : Submit(k)
    \/ \E r \in DOMAIN taskObjs : HandlerResolve(r)
    \/ \E r \in DOMAIN taskObjs : HandlerReject(r)
    \/ CancelAll
    \/ WaitForAllCall
    \/ WaitForAllDrained
    \/ WaitForAllTimeout

SpecPool == InitPool /\ [][NextPool]_vars

\* the WorkerPool cancelled only by the timeout of waitForAll
NextWait ==
    \/ \E k \in PoolKeys : Submit(k)
    \/ \E r \in DOMAIN taskObjs : HandlerResolve(r)
    \/ \E r \in DOMAIN taskObjs : HandlerReject(r)
    \/ WaitForAllCall
    \/ WaitForAllDrained
    \/ WaitForAllTimeout

SpecWait == InitPool /\ [][NextWait]_vars

\* the running orchestrator: the Poller, the pool and the handlers it starts
NextPoller ==
    \/ \E c \in Cycles : PollStart(c)
    \/ \E c \in Cycles : FetchIssues(c)
    \/ \E c \in Cycles : PollThrow(c)
    \/ \E c \in Cycles : IssueStep(c)
    \/ \E c \in Cycles : FetchComments(c)
    \/ \E c \in Cycles : ReviewStep(c)
    \/ \E c \in Cycles : PollEnd(c)
    \/ \E r \in DOMAIN taskObjs : RemoveTrigger(r)
    \/ \E r \in DOMAIN taskObjs : HandlerSettle(r)
    \/ \E pr \in PRs : AddComment(pr)
    \/ Tick

SpecPoller == Init /\ [][NextPoller]_vars

\* change requests are interchangeable: change request n has its first
\* Review task after change request n - 1
PRInOrder(pr) ==
    \A p \in 1..(pr - 1) :
        \E r \in DOMAIN taskObjs :
            taskObjs[r].type = "review" /\ taskObjs[r].id[2] = p

\* the pool and the handlers it runs, step by step: tasks are dispatched as
\* the Poller dispatches them
InitRun == Init /\ labeled = Issues

NextRun ==
    \/ \E n \in Issues : DispatchIssue(n)
    \/ \E pr \in PRs : PRInOrder(pr) /\ DispatchReview(pr)
    \/ \E r \in DOMAIN hs : CallReturns(r)
    \/ \E r \in DOMAIN hs : CallThrows(r)
    \/ \E r \in DOMAIN hs : CreateWorktreeReturns(r)
    \/ \E r \in DOMAIN hs : CreateWorktreeThrows(r)
    \/ \E r \in DOMAIN hs : \E code \in ExitCodes : \E sid \in 0..NumTokens :
          AgentCloses(r, code, sid)
    \/ \E r \in DOMAIN hs : AgentError(r)
    \/ \E r \in DOMAIN hs : RemoveWorktreeReturns(r)
    \/ \E r \in DOMAIN hs : RemoveWorktreeThrows(r)
    \/ activeCount > 0 /\ CancelAll
    \/ HandlersLeft /\ Tick

SpecRun == InitRun /\ [][NextRun]_vars

\* the running orchestrator and its shutdown; nothing runs after the exit
Alive == proc # "exited"

NextShutdown ==
    \/ \E c \in Cycles : PollStart(c)
    \/ Alive /\ \E c \in Cycles : FetchIssues(c)
    \/ Alive /\ \E c \in Cycles : PollThrow(c)
    \/ Alive /\ \E c \in Cycles : IssueStep(c)
    \/ Alive /\ \E c \in Cycles : FetchComments(c)
    \/ Alive /\ \E c \in Cycles : ReviewStep(c)
    \/ Alive /\ \E c \in Cycles : PollEnd(c)
    \/ Alive /\ \E r \in DOMAIN taskObjs : RemoveTrigger(r)
    \/ Alive /\ \E r \in DOMAIN taskObjs : HandlerSettle(r)
    \/ Alive /\ \E pr \in PRs : AddComment(pr)
    \/ Alive /\ Tick
    \/ ShutdownSignal
    \/ ShutdownDrained
    \/ ShutdownTimeout

SpecShutdown == Init /\ [][NextShutdown]_vars

\* the new-work scan over a longer list of issues, no feedback being written
InitScan ==
    /\ tasks = {}
    /\ taskObjs = <<>>
    /\ wpc = "idle"
    /\ lastOp = [op |-> "-", pre |-> "-"]
    /\ now = 0
    /\ lastPollTime = 0
    /\ labeled \in SUBSET (1..NumScanIssues)
    /\ comments = <<>>
    /\ cyc = [c \in Cycles |-> IdleCycle]
    /\ hs = <<>>
    /\ sessionStore = [pr \in PRs |-> 0]
    /\ worktrees = {}
    /\ proc = "running"
    /\ stdout = <<>>
    /\ sessionId = -1

NextScan ==
    \/ \E c \in Cycles : PollStart(c)
    \/ \E c \in Cycles : FetchIssues(c)
    \/ \E c \in Cycles : PollThrow(c)
    \/ \E c \in Cycles : IssueStep(c)
    \/ \E c \in Cycles : FetchComments(c)
    \/ \E c \in Cycles : PollEnd(c)
    \/ \E r \in DOMAIN taskObjs : RemoveTrigger(r)
    \/ \E r \in DOMAIN taskObjs : HandlerSettle(r)

SpecScan == InitScan /\ [][NextScan]_vars

\* extractSessionId applied to every output of up to MaxLines lines
InitExtract ==
    /\ tasks = {}
    /\ taskObjs = <<>>
    /\ wpc = "idle"
    /\ lastOp = [op |-> "-", pre |-> "-"]
    /\ now = 0
    /\ lastPollTime = 0
    /\ labeled = {}
    /\ comments = <<>>
    /\ cyc = [c \in Cycles |-> IdleCycle]
    /\ hs = <<>>
    /\ sessionStore = [pr \in PRs |-> 0]
    /\ worktrees = {}
    /\ proc = "running"
    /\ stdout \in Outputs
    /\ sessionId = -1

NextExtract == Extract

SpecExtract == InitExtract /\ [][NextExtract]_vars

\* the Poller with handlers that never settle.  The tracker calls a cycle
\* awaits return, and the event loop runs every continuation that is ready:
\* weak fairness of the steps of a cycle.  Nothing is assumed of the timer,
\* of the clock, of the humans, or of the handlers.
NextLive ==
    \/ \E c \in Cycles : PollStart(c)
    \/ \E c \in Cycles : FetchIssues(c)
    \/ \E c \in Cycles : PollThrow(c)
    \/ \E c \in Cycles : IssueStep(c)
    \/ \E c \in Cycles : FetchComments(c)
    \/ \E c \in Cycles : ReviewStep(c)
    \/ \E c \in Cycles : PollEnd(c)
    \/ \E r \in DOMAIN taskObjs : RemoveTrigger(r)
    \/ \E pr \in PRs : AddComment(pr)
    \/ Tick

CycleFairness ==
    \A c \in Cycles :
        /\ WF_vars(FetchIssues(c))
        /\ WF_vars(IssueStep(c))
        /\ WF_vars(FetchComments(c))
        /\ WF_vars(ReviewStep(c))
        /\ WF_vars(PollEnd(c))

SpecLive == Init /\ [][NextLive]_vars /\ CycleFairness

(***************************************************************************)
(* Properties of the WorkerPool.                                           *)
(***************************************************************************)
ActiveStatus == {"pending", "in-progress"}

\* the registered tasks that are in-progress, counted from the registry
InProgressCount ==
    Cardinality({e \in tasks : taskObjs[e.ref].status = "in-progress"})

SubmitStep == lastOp'.op = "submit"

\* C1: whatever the calls made so far, no two tasks of the registry, and no
\* two task objects ever created, have the same idempotency key and are both
\* pending or in-progress.
C1_OneActivePerKey ==
    /\ \A e1, e2 \in tasks :
          (/\ e1.k = e2.k
           /\ taskObjs[e1.ref].status \in ActiveStatus
           /\ taskObjs[e2.ref].status \in ActiveStatus) => e1 = e2
    /\ \A r1, r2 \in DOMAIN taskObjs :
          (/\ taskObjs[r1].id = taskObjs[r2].id
           /\ taskObjs[r1].status \in ActiveStatus
           /\ taskObjs[r2].status \in ActiveStatus) => r1 = r2

\* a key is in-progress again after an earlier task under it has ended
C1_Witness ==
    \E r1, r2 \in DOMAIN taskObjs :
        /\ r1 < r2
        /\ taskObjs[r1].id = taskObjs[r2].id
        /\ taskObjs[r1].status \in {"completed", "failed"}
        /\ taskObjs[r2].status = "in-progress"

\* C2: no two handler executions submitted under the same key run at the
\* same time (started and not yet settled).
C2_NoConcurrentSameKey ==
    \A r1, r2 \in DOMAIN taskObjs :
        (/\ taskObjs[r1].id = taskObjs[r2].id
         /\ taskObjs[r1].run = "running"
         /\ taskObjs[r2].run = "running") => r1 = r2

\* C3: the in-progress tasks never outnumber the maximum concurrency;
\* canAccept is true exactly when their number is below the maximum; a step
\* registers a new task only when their number was below the maximum.
C3_ConcurrencyBound ==
    /\ [](/\ InProgressCount <= MaxConcurrency
          /\ canAccept <=> InProgressCount < MaxConcurrency)
    /\ [][Len(taskObjs') > Len(taskObjs) => InProgressCount < MaxConcurrency]_vars

\* an accepted submit has just filled the pool
C3_Witness ==
    /\ lastOp.op = "submit"
    /\ lastOp.pre = "free"
    /\ InProgressCount = MaxConcurrency

\* C4: a submit call made while the in-progress tasks are at the maximum
\* changes neither the registry nor any task object (status, cancellation
\* handle), and creates no handler execution.
C4_FullSubmitNoOp ==
    [][(SubmitStep /\ InProgressCount >= MaxConcurrency)
          => (tasks' = tasks /\ taskObjs' = taskObjs)]_vars

\* a submit call has just been made on a full pool
C4_Witness ==
    /\ lastOp.op = "submit"
    /\ lastOp.pre = "full"
    /\ InProgressCount = MaxConcurrency
    /\ Len(taskObjs) < MaxRuns

\* C5: a submit call under a key that has a pending or in-progress task
\* changes neither the registry nor any task object, and creates no handler
\* execution.
C5_DuplicateSubmitNoOp ==
    [][(SubmitStep /\ lastOp'.pre \in {"dup", "fulldup"})
          => (tasks' = tasks /\ taskObjs' = taskObjs)]_vars

\* a submit call has just been made under an active key, with capacity left
C5_Witness ==
    /\ lastOp.op = "submit"
    /\ lastOp.pre = "dup"
    /\ InProgressCount < MaxConcurrency
    /\ Len(taskObjs) < MaxRuns

\* C6: an accepted submit leaves its task in-progress with its handler
\* running; the step in which the handler of a task resolves leaves that
\* task completed, the step in which it rejects leaves that task failed.
C6_SettlementMarksItsTask ==
    [][/\ Len(taskObjs') > Len(taskObjs) =>
             /\ taskObjs'[Len(taskObjs')].status = "in-progress"
             /\ taskObjs'[Len(taskObjs')].run = "running"
       /\ \A r \in DOMAIN taskObjs :
             /\ (taskObjs[r].run = "running" /\ taskObjs'[r].run = "resolved")
                   => taskObjs'[r].status = "completed"
             /\ (taskObjs[r].run = "running" /\ taskObjs'[r].run = "rejected")
                   => taskObjs'[r].status = "failed"]_vars

\* C7: a task whose cancellation handle was triggered by the timeout of
\* waitForAll is failed, then and in every later state.  (Under SpecWait
\* nothing else triggers a handle.)
C7_TimedOutStaysFailed ==
    \A r \in DOMAIN taskObjs :
        taskObjs[r].aborted => taskObjs[r].status = "failed"

CancelStep == lastOp'.op \in {"cancelAll", "waitTimeout"}

\* C8: a cancelAll (called directly or by the timeout of waitForAll) triggers
\* the handle of every registered in-progress task and marks it failed, and
\* leaves every other task object, and the registry, as they were.
C8_CancelAllFrame ==
    [][CancelStep =>
          /\ tasks' = tasks
          /\ DOMAIN taskObjs' = DOMAIN taskObjs
          /\ \A r \in DOMAIN taskObjs :
                IF (\E e \in tasks : e.ref = r) /\ taskObjs[r].status = "in-progress"
                THEN taskObjs'[r] = [taskObjs[r] EXCEPT !.aborted = TRUE,
                                                        !.status = "failed"]
                ELSE taskObjs'[r] = taskObjs[r]]_vars

\* a cancelAll has just cancelled one task and passed over a completed one
C8_Witness ==
    /\ lastOp.op = "cancelAll"
    /\ \E r \in DOMAIN taskObjs :
          taskObjs[r].aborted /\ taskObjs[r].status = "failed"
    /\ \E r \in DOMAIN taskObjs :
          ~taskObjs[r].aborted /\ taskObjs[r].status = "completed"

(***************************************************************************)
(* Properties of the Poller.                                               *)
(***************************************************************************)
\* the step in which cycle c leaves poll() through the end of its try block
EndsNormally(c) == cyc[c].pc = "reviewLoop" /\ cyc'[c].pc = "idle"

\* the step in which cycle c leaves poll() through its catch block
EndsByThrow(c) == cyc[c].pc \in {"issues", "comments"} /\ cyc'[c].pc = "idle"

\* C9: when a cycle ends, every entry its feedback scan returned was carried
\* by a Review task the pool accepted in that cycle, or is still inside the
\* window the next fetch asks for (created at or after lastPollTime).
C9_NoAdvancePastUndispatched ==
    [][\A c \in Cycles :
          EndsNormally(c) =>
             \A id \in cyc[c].got \ cyc[c].sent :
                 comments[id].at >= lastPollTime']_vars

\* C10 as stated: lastPollTime changes only in the step that ends a cycle
\* whose two scans did not throw, and when a cycle ends by a throw
\* lastPollTime has the value it had when that cycle started.
C10_ThrowKeepsStartValue ==
    [][/\ lastPollTime' # lastPollTime => \E c \in Cycles : EndsNormally(c)
       /\ \A c \in Cycles : EndsByThrow(c) => lastPollTime' = cyc[c].start]_vars

\* C10 amended: lastPollTime changes only in the step that ends a cycle
\* whose two scans did not throw, and then becomes the current time; the
\* step in which a cycle ends by a throw does not change it.
C10_OnlyCleanCycleWrites ==
    [][/\ lastPollTime' # lastPollTime =>
             /\ \E c \in Cycles : EndsNormally(c)
             /\ lastPollTime' = now
       /\ \A c \in Cycles : EndsByThrow(c) => lastPollTime' = lastPollTime]_vars

\* a cycle has just ended by a throw at a time later than lastPollTime
C10_Witness ==
    /\ lastOp.op = "pollThrow"
    /\ now > lastPollTime

\* C11: within one cycle a tracker error thrown in the new-work scan does not
\* keep the feedback scan of that cycle from running: a cycle that leaves the
\* await of fetchLabeledIssues goes on to its loop over the issues or to its
\* feedback scan.  (The feedback scan runs after the new-work scan has
\* returned, so an error in it cannot keep the new-work scan from running.)
C11_ScansIndependent ==
    [][\A c \in Cycles :
          (cyc[c].pc = "issues" /\ cyc'[c].pc # "issues")
              => cyc'[c].pc \in {"issueLoop", "comments"}]_vars

(***************************************************************************)
(* Properties of the handlers.                                             *)
(***************************************************************************)
\* handler r is running and works in the worktree it created
UsesWorktree(r) == hs[r].holds /\ taskObjs[r].run = "running"

\* C12: a workspace is never shared: no two running handlers work in the
\* same worktree path at the same time (two Review tasks of one change
\* request have the same path and the same branch), and the step in which a
\* handler discards its worktree path does not remove a worktree another
\* running handler works in.
C12_WorkspaceNeverShared ==
    /\ [](\A r1, r2 \in DOMAIN hs :
             (/\ UsesWorktree(r1)
              /\ UsesWorktree(r2)
              /\ WorktreePath(taskObjs[r1]) = WorktreePath(taskObjs[r2])) => r1 = r2)
    /\ [][\A r \in DOMAIN hs :
             (hs[r].pc = "removeWorktree" /\ hs'[r].pc = "done") =>
                \A q \in DOMAIN hs \ {r} :
                    ~(/\ UsesWorktree(q)
                      /\ WorktreePath(taskObjs[q]) = WorktreePath(taskObjs[r]))]_vars

\* the calls C13 lists, in the order it lists them
ImplementCalls ==
    << Call("removeLabel", "trigger"), Call("addLabel", "inProgress"),
       Call("createWorktree", "-"), Call("runClaude", "-"), Call("gitPush", "-"),
       Call("createPullRequest", "-"), Call("postComment", "link"),
       Call("removeLabel", "inProgress"), Call("removeWorktree", "-") >>

IsImplementCall(c) == \E i \in DOMAIN ImplementCalls : ImplementCalls[i] = c

\* the Implement handlers that have returned without leaving their try block
\* through a throw
SucceededImplement ==
    {r \in DOMAIN hs : /\ taskObjs[r].type = "issue"
                       /\ hs[r].pc = "done"
                       /\ ~hs[r].threw}

\* C13: a successful Implement run has made, each exactly once and in this
\* order: removeLabel(trigger), addLabel(in-progress), the worktree
\* creation, the agent invocation, the push, the change-request creation,
\* the comment with the link, removeLabel(in-progress), the worktree removal.
C13_SuccessfulImplementCalls ==
    \A r \in SucceededImplement :
        SelectSeq(hs[r].log, IsImplementCall) = ImplementCalls

\* an Implement handler has returned from a run in which nothing threw
C13_Witness ==
    \E r \in SucceededImplement : taskObjs[r].status = "completed"

\* how many times call c is in a log
Count(log, c) == Cardinality({i \in DOMAIN log : log[i] = c})

\* the Implement handlers that have returned from a run whose agent exited
\* with a non-zero code
AgentFailedImplement ==
    {r \in DOMAIN hs : /\ taskObjs[r].type = "issue"
                       /\ hs[r].pc = "done"
                       /\ hs[r].exit \in ExitCodes \ {0}}

\* C14: an Implement run whose agent returns a non-zero exit code makes no
\* push and no change-request creation, adds the failure label exactly once,
\* posts the error comment exactly once, removes the worktree exactly once,
\* and calls removeLabel(in-progress), once, after the agent has returned.
C14_AgentFailureCalls ==
    \A r \in AgentFailedImplement :
        LET log == hs[r].log
        IN  /\ Count(log, Call("gitPush", "-")) = 0
            /\ Count(log, Call("createPullRequest", "-")) = 0
            /\ Count(log, Call("addLabel", "failed")) = 1
            /\ Count(log, Call("postComment", "error")) = 1
            /\ Count(log, Call("removeWorktree", "-")) = 1
            /\ Count(log, Call("removeLabel", "inProgress")) = 1
            /\ \E i, j \in DOMAIN log :
                  /\ i < j
                  /\ log[i] = Call("runClaude", "-")
                  /\ log[j] = Call("removeLabel", "inProgress")

\* an Implement handler has returned from a run whose agent exited non-zero
C14_Witness ==
    \E r \in AgentFailedImplement : hs[r].threw /\ ~hs[r].holds

\* C15: in a Review run for change request pr the session id given to the
\* agent is the one stored for pr (none when nothing is stored), and the
\* session id stored for pr changes only in a step in which the agent of a
\* Review run for pr returns with exit code zero.
C15_TokenOverwrittenOnSuccessOnly ==
    [][/\ \A r \in DOMAIN hs :
             (/\ taskObjs[r].type = "review"
              /\ hs[r].pc # "agent"
              /\ hs'[r].pc = "agent") => hs'[r].resume = sessionStore[taskObjs[r].id[2]]
       /\ \A pr \in PRs :
             sessionStore'[pr] # sessionStore[pr] =>
                \E r \in DOMAIN hs :
                    /\ taskObjs[r].type = "review"
                    /\ taskObjs[r].id[2] = pr
                    /\ hs[r].pc = "agent"
                    /\ hs'[r].exit = 0]_vars

\* C16: a handler (Implement or Review) that has settled after one of its
\* steps failed (a tracker call, the branch lookup, the worktree creation,
\* the agent, the push) has attempted the comment that carries the error
\* message.
C16_FailureCommented ==
    \A r \in DOMAIN hs :
        (hs[r].pc = "done" /\ hs[r].threw)
            => Count(hs[r].log, Call("postComment", "error")) >= 1

\* C17: when the cancellation handle of a task is triggered while its agent
\* subprocess is running, the subprocess is sent the termination signal; a
\* task whose handle was triggered is failed, then and in every later state
\* (never completed); and its handler calls neither the push nor the
\* change-request creation after the handle was triggered.
C17_CancelledFails ==
    /\ [][\A r \in DOMAIN hs :
             (/\ ~taskObjs[r].aborted
              /\ taskObjs'[r].aborted
              /\ hs[r].pc = "agent") => hs'[r].killed]_vars
    /\ [](\A r \in DOMAIN hs :
             taskObjs[r].aborted => taskObjs[r].status = "failed")
    /\ [][\A r \in DOMAIN hs :
             taskObjs[r].aborted =>
                \A i \in (Len(hs[r].log) + 1)..Len(hs'[r].log) :
                    hs'[r].log[i] \notin {Call("gitPush", "-"),
                                          Call("createPullRequest", "-")}]_vars

(***************************************************************************)
(* Properties of the shutdown.                                             *)
(***************************************************************************)
\* C18: once shutdown has begun no poll cycle starts and no task is
\* registered in the pool (not even by a cycle that was in flight), and the
\* process has exited only with no task in-progress that was not cancelled.
C18_ShutdownStopsSubmissions ==
    /\ [][proc # "running" =>
             /\ \A c \in Cycles : cyc[c].pc = "idle" => cyc'[c].pc = "idle"
             /\ Len(taskObjs') = Len(taskObjs)]_vars
    /\ [](proc = "exited" =>
             \A e \in tasks :
                 taskObjs[e.ref].status = "in-progress" => taskObjs[e.ref].aborted)

(***************************************************************************)
(* Properties of the new-work scan.                                        *)
(***************************************************************************)
\* the pool has a pending or in-progress task under the key of issue n, read
\* from the registry
PoolHasIssue(n) ==
    \E e \in tasks : /\ e.k = IssueKey(n)
                     /\ taskObjs[e.ref].status \in ActiveStatus

\* the positions of a list whose issue the pool does not have
Open(list) == {i \in DOMAIN list : ~PoolHasIssue(list[i])}

\* the first of them
FirstOpen(list) == CHOOSE i \in Open(list) : \A j \in Open(list) : i <= j

\* C19: in every step of the new-work scan of a cycle, the issues are taken
\* in the order of the list and those the pool has are passed over: a task
\* the step registers is the task of the first issue of the remaining list
\* the pool does not have, and the issues after it remain, in order; when
\* the pool cannot accept that first issue the step registers nothing and
\* ends the scan of the cycle, so no later issue is submitted ahead of it.
C19_ScanInOrder ==
    [][\A c \in Cycles :
          (cyc[c].pc = "issueLoop" /\ cyc'[c] # cyc[c]) =>
             LET list == cyc[c].list
             IN  /\ Len(taskObjs') > Len(taskObjs) =>
                       /\ Open(list) # {}
                       /\ InProgressCount < MaxConcurrency
                       /\ taskObjs'[Len(taskObjs')].id = IssueKey(list[FirstOpen(list)])
                       /\ cyc'[c].list = SubSeq(list, FirstOpen(list) + 1, Len(list))
                 /\ (Open(list) # {} /\ InProgressCount >= MaxConcurrency) =>
                       /\ taskObjs' = taskObjs
                       /\ tasks' = tasks
                       /\ cyc'[c].pc # "issueLoop"
                       /\ cyc'[c].list = <<>>]_vars

\* a scan has just ended on a full pool with a labelled issue left that the
\* pool does not have
C19_Witness ==
    /\ lastOp.op = "scanBreak"
    /\ InProgressCount = MaxConcurrency
    /\ \E n \in labeled : ~PoolHasIssue(n)

(***************************************************************************)
(* Properties of extractSessionId.                                         *)
(***************************************************************************)
\* the lines of an output that are a JSON record with a string session_id
SidLines(out) == {i \in DOMAIN out : out[i].kind = "sid"}

\* the session id of the last of them, 0 (none) when there is none
LastSessionId(out) ==
    IF SidLines(out) = {} THEN 0
    ELSE out[CHOOSE i \in SidLines(out) : \A j \in SidLines(out) : j <= i].id

\* C20: extractSessionId returns the session_id of the last line that is a
\* valid JSON record with a string session_id, and none when no line is one;
\* malformed lines are skipped, a malformed last line included.
C20_LastValidSessionId ==
    sessionId # -1 => sessionId = LastSessionId(stdout)

\* C21: a handler that has created its worktree has attempted its removal
\* exactly once when it settles, whatever the path it took (success, a
\* failing step, cancellation), and never more than once; the step in which
\* the removal ends, failing or not, makes handle() return normally, and the
\* only status it writes is the one of a handler that returned.
C21_DiscardOnceOnEveryPath ==
    /\ [](\A r \in DOMAIN hs :
             /\ Count(hs[r].log, Call("removeWorktree", "-")) <= 1
             /\ (hs[r].created /\ taskObjs[r].run # "running")
                   => Count(hs[r].log, Call("removeWorktree", "-")) = 1)
    /\ [][\A r \in DOMAIN hs :
             (hs[r].pc = "removeWorktree" /\ hs'[r].pc = "done") =>
                /\ taskObjs'[r].run = "resolved"
                /\ \A q \in DOMAIN taskObjs :
                      taskObjs'[q].status # taskObjs[q].status
                          => taskObjs'[q].status = "completed"]_vars

\* a handler that had created its worktree has settled after a failing
\* removal, one on its failure path and one cancelled
C21_Witness ==
    /\ \E r \in DOMAIN hs :
          /\ hs[r].created
          /\ hs[r].discardFailed
          /\ hs[r].threw
          /\ taskObjs[r].run = "resolved"
    /\ \E r \in DOMAIN hs :
          /\ hs[r].created
          /\ taskObjs[r].aborted
          /\ taskObjs[r].run = "resolved"

\* the calls of an Implement handler from its throw to its return
Compensation ==
    << Call("removeLabel", "inProgress"), Call("addLabel", "failed"),
       Call("postComment", "error"), Call("removeWorktree", "-") >>

\* the Implement handlers that have returned through their failure path
FailedImplement ==
    {r \in DOMAIN hs : /\ taskObjs[r].type = "issue"
                       /\ hs[r].pc = "done"
                       /\ hs[r].threw}

\* C22: an Implement handler that has left its try block through a throw
\* has made, after the throw, removeLabel(in-progress), addLabel(failed) and
\* the error comment, each exactly once and whether or not an earlier one of
\* them failed, and then the worktree removal; handle() has returned
\* normally.
C22_CompensationsIndependent ==
    \A r \in FailedImplement :
        /\ SubSeq(hs[r].log, hs[r].failedAt + 1, Len(hs[r].log)) = Compensation
        /\ taskObjs[r].run = "resolved"

\* an Implement handler has returned after a call of its catch block failed
C22_Witness ==
    \E r \in FailedImplement : hs[r].swallowed

\* C23: the task of a handler (Implement or Review) that has settled after
\* leaving its try block through a throw (the agent exited non-zero, the
\* worktree creation or the push failed, ...) is recorded as failed.
C23_FailurePathRecordedFailed ==
    \A r \in DOMAIN hs :
        (hs[r].pc = "done" /\ hs[r].threw) => taskObjs[r].status = "failed"

(***************************************************************************)
(* Progress of the Poller.                                                 *)
(***************************************************************************)
\* C24: a poll cycle never waits for a task it has submitted: with handlers
\* that never settle, every cycle that has started returns (its slot is
\* idle again, so the next cycle can start).
C24_CycleEnds ==
    \A c \in Cycles : (cyc[c].pc # "idle") ~> (cyc[c].pc = "idle")

\* a cycle has just ended while the pool is full of handlers still running
C24_Witness ==
    /\ lastOp.op = "pollEnd"
    /\ InProgressCount = MaxConcurrency
    /\ \A r \in DOMAIN taskObjs : taskObjs[r].run = "running"
    /\ \A c \in Cycles : cyc[c].pc = "idle"


\* C25: each feedback entry is carried by at most one Review task over the
\* life of the process: no two task objects carry a common entry.
C25_EntryCarriedOnce ==
    \A r1, r2 \in DOMAIN taskObjs :
        r1 # r2 => taskObjs[r1].carry \cap taskObjs[r2].carry = {}


\* the step registers a new task object for an Implement run
NewImplementTask ==
    /\ Len(taskObjs') > Len(taskObjs)
    /\ taskObjs'[Len(taskObjs')].type = "issue"

\* C26: once an Implement run for an issue has finished, no second Implement
\* task is submitted for that issue (nobody adds the trigger label again):
\* a step that registers an Implement task finds no settled task object of
\* the same issue.
C26_NoSecondImplementAfterFinish ==
    [][NewImplementTask =>
          \A r \in DOMAIN taskObjs :
              taskObjs[r].run # "running"
                  => taskObjs[r].id # taskObjs'[Len(taskObjs')].id]_vars


\* the handler of task object r settles in this step
Settles(r) == taskObjs[r].run = "running" /\ taskObjs'[r].run # "running"

\* C27: the settlement of a handler changes only the status of the task
\* object created by the same submit call, and only if that object is not
\* yet completed or failed: every other task object keeps its status, and
\* an object already in a terminal status keeps it.
C27_SettlementFrame ==
    [][\A r \in DOMAIN taskObjs :
          Settles(r) =>
             /\ \A q \in DOMAIN taskObjs \ {r} :
                   taskObjs'[q].status = taskObjs[q].status
             /\ taskObjs[r].status \in {"completed", "failed"}
                   => taskObjs'[r].status = taskObjs[r].status]_vars

=============================================================================
